---- MODULE Spec2Model ----
(***************************************************************************)
(* Model of the Telegram store scraper (src/main.py) and of the standalone *)
(* exporter (src/export_only.py).                                          *)
(*                                                                         *)
(* Strings are modelled at word granularity.  A message text is a sequence *)
(* of lines, a line a sequence of words (the text split on "\n" and " ").  *)
(* A name such as "Nike_Air" is the sequence of its "_"-separated segments *)
(* and the empty string is the empty sequence.  File names, folder names   *)
(* and export cells are TLA+ strings built with \o.                        *)
(* The size and description fields are carried by no claim and are left    *)
(* out of the records; the bytes of the downloaded images are not kept.    *)
(***************************************************************************)
EXTENDS Integers, Sequences, FiniteSets, TLC

\* ---------------------------------------------------------------- bounds
MaxMsgs      == 3   \* longest message list of a full scan
LongLen      == 11  \* length of the long scan (two-digit sequence numbers)
MaxAlbumMsgs == 4   \* longest message list handed to the grouping loop alone
MaxKey       == 2   \* album keys (grouped_id) of those lists are 1..MaxKey

NoKey  == 0       \* grouped_id is None: `if msg.grouped_id` is false
NoText == <<>>    \* msg.message is None or ""

\* ------------------------------------------------------- string helpers
Digits == <<"0", "1", "2", "3", "4", "5", "6", "7", "8", "9">>

RECURSIVE StrOfNat(_)
StrOfNat(n) ==
    IF n < 10 THEN Digits[n + 1]
    ELSE StrOfNat(n \div 10) \o Digits[(n % 10) + 1]

RECURSIVE Zfill(_, _)
Zfill(s, width) == IF Len(s) >= width THEN s ELSE Zfill("0" \o s, width)

RECURSIVE JoinStr(_, _)
JoinStr(parts, sep) ==
    IF parts = <<>> THEN ""
    ELSE IF Len(parts) = 1 THEN parts[1]
    ELSE parts[1] \o sep \o JoinStr(Tail(parts), sep)

RECURSIVE Flatten(_)
Flatten(lines) == IF lines = <<>> THEN <<>> ELSE Head(lines) \o Flatten(Tail(lines))

\* str.strip() on a word sequence: leading and trailing empty words go
RECURSIVE LStrip(_)
LStrip(ws) == IF ws # <<>> /\ Head(ws) = "" THEN LStrip(Tail(ws)) ELSE ws

RECURSIVE RStrip(_)
RStrip(ws) ==
    IF ws # <<>> /\ ws[Len(ws)] = "" THEN RStrip(SubSeq(ws, 1, Len(ws) - 1)) ELSE ws

Strip(ws) == RStrip(LStrip(ws))

\* ------------------------------------------------------ the word alphabet
PriceKeywords == {"Price", "Price:"}          \* labeled form of PRICE_PATTERNS[0]
CurrencyWords == {"UAH"}                      \* suffix of PRICE_PATTERNS[1]
NumberWords   == {"500", "40"}
JunkKeywords  == {"Price", "Cina"}            \* _JUNK_NAME_RE

\* int(match.group(1)) on the number words of the alphabet
IntOf(w) ==
    CASE w = "500" -> 500
      [] w = "40"  -> 40

\* re.sub(r'[<>:"/\\|?*]', "", word)
RemoveSpecial(w) ==
    CASE w = "Price:" -> "Price"
      [] w = "???"    -> ""
      [] OTHER        -> w

\* str.replace('[', '').replace(']', '') on one "_"-segment
StripBrackets(w) ==
    CASE w = "[new]" -> "new"
      [] OTHER       -> w

\* The texts a post can carry.
TextGood  == << <<"Nike", "[new]">>, <<"Price:", "500", "M">> >>
TextJunk  == << <<"Price", "500">>, <<"M">> >>
TextBlank == << <<"???">>, <<"40", "UAH">> >>
TextChat  == << <<"Hello">> >>
Texts     == {NoText, TextChat, TextGood, TextJunk, TextBlank}

\* ------------------------------------------------------ Pattern Extractor
_sanitize_name(line) ==
    Strip([i \in 1..Len(line) |-> RemoveSpecial(line[i])])

\* first match of PRICE_PATTERNS[0], then of PRICE_PATTERNS[1], over the text
LabeledAt(ws)  == {i \in 1..(Len(ws) - 1) : ws[i] \in PriceKeywords /\ ws[i + 1] \in NumberWords}
CurrencyAt(ws) == {i \in 1..(Len(ws) - 1) : ws[i] \in NumberWords /\ ws[i + 1] \in CurrencyWords}
Min(S) == CHOOSE x \in S : \A y \in S : x <= y
Max(S) == CHOOSE x \in S : \A y \in S : x >= y

NoPrice == -1
FindPrice(text) ==
    LET ws == Flatten(text) IN
    IF LabeledAt(ws) # {} THEN IntOf(ws[Min(LabeledAt(ws)) + 1])
    ELSE IF CurrencyAt(ws) # {} THEN IntOf(ws[Min(CurrencyAt(ws))])
    ELSE NoPrice

Rejected == [rejected |-> TRUE]

parse_product_info(text) ==
    IF text = NoText THEN Rejected
    ELSE IF FindPrice(text) = NoPrice THEN Rejected
    ELSE [rejected |-> FALSE,
          name     |-> _sanitize_name(text[1]),
          price    |-> FindPrice(text),
          raw_text |-> text]

\* ----------------------------------------------------------- Album Grouper
\* groups hold positions in `messages`; the lead of a group is its first entry
\* faulty variant: the message joins the first group, whatever its key
AppendToFirst(msgs, gs, j, i) == [gs EXCEPT ![1] = Append(@, i)]

RECURSIVE AppendToGroup(_, _, _, _)
AppendToGroup(msgs, gs, j, i) ==
    IF j > Len(gs) THEN gs
    ELSE IF msgs[gs[j][1]].grouped_id = msgs[i].grouped_id
         THEN [gs EXCEPT ![j] = Append(@, i)]
         ELSE AppendToGroup(msgs, gs, j + 1, i)

RECURSIVE GroupLoop(_, _, _, _)
GroupLoop(msgs, i, seen, gs) ==
    IF i > Len(msgs) THEN gs
    ELSE IF ~msgs[i].media THEN GroupLoop(msgs, i + 1, seen, gs)
    ELSE IF msgs[i].grouped_id # NoKey
         THEN IF msgs[i].grouped_id \in seen
              THEN GroupLoop(msgs, i + 1, seen, AppendToGroup(msgs, gs, 1, i))
              ELSE GroupLoop(msgs, i + 1, seen \cup {msgs[i].grouped_id}, Append(gs, <<i>>))
         ELSE GroupLoop(msgs, i + 1, seen, Append(gs, <<i>>))

GroupMessagesOf(msgs) == GroupLoop(msgs, 1, {}, <<>>)

\* faulty variant: the last text of the group instead of the first
RepresentativeTextLast(msgs, group) ==
    LET withText == {p \in 1..Len(group) : msgs[group[p]].message # NoText} IN
    IF withText = {} THEN NoText
    ELSE msgs[group[CHOOSE p \in withText : \A q \in withText : p >= q]].message

\* next((m.message for m in group if m.message), None)
RepresentativeText(msgs, group) ==
    LET withText == {p \in 1..Len(group) : msgs[group[p]].message # NoText} IN
    IF withText = {} THEN NoText ELSE msgs[group[Min(withText)]].message

IsValidGroup(msgs, group) ==
    LET text == RepresentativeText(msgs, group) IN
    text # NoText /\ ~parse_product_info(text).rejected

ValidGroupsOf(msgs, gs) ==
    LET keep == SelectSeq([j \in 1..Len(gs) |-> j], LAMBDA j : IsValidGroup(msgs, gs[j])) IN
    [k \in 1..Len(keep) |->
        [lead  |-> gs[keep[k]][1],
         group |-> gs[keep[k]],
         text  |-> RepresentativeText(msgs, gs[keep[k]])]]

UnparsedOf(msgs, gs) == Cardinality({j \in 1..Len(gs) : ~IsValidGroup(msgs, gs[j])})

\* ------------------------------------------------------------ file names
ImageName(pos) == "img_" \o StrOfNat(pos) \o ".jpg"

\* name.split("_") of a name held as segments: "" splits into one empty part
SegsOf(name) == IF name = <<>> THEN <<"">> ELSE name

\* ";".join(files) as a token string, and images.split(";")
RECURSIVE JoinSemi(_)
JoinSemi(files) ==
    IF files = <<>> THEN <<>>
    ELSE IF Len(files) = 1 THEN <<files[1]>>
    ELSE <<files[1], ";">> \o JoinSemi(Tail(files))

RECURSIVE SplitSemi(_)
SplitSemi(ts) ==
    LET semis == {k \in 1..Len(ts) : ts[k] = ";"} IN
    IF semis = {} THEN <<JoinStr(ts, "")>>
    ELSE <<JoinStr(SubSeq(ts, 1, Min(semis) - 1), "")>>
             \o SplitSemi(SubSeq(ts, Min(semis) + 1, Len(ts)))

\* round(price_uah / 50): Python rounds halves to the even neighbour
Divisor == 50
RoundDiv(p) ==
    LET q == p \div Divisor
        r == p % Divisor
    IN  IF 2 * r < Divisor THEN q
        ELSE IF 2 * r > Divisor THEN q + 1
        ELSE IF q % 2 = 0 THEN q ELSE q + 1

BaseUrls == {"", "https://cdn.example.com/"}
\* image_base_url.rstrip('/')
RstripSlash(url) ==
    CASE url = "https://cdn.example.com/" -> "https://cdn.example.com"
      [] OTHER -> url

\* ------------------------------------------------------------------ state
VARIABLES
    pc,               \* position of the process
    messages,         \* scrape_channel: messages
    groups,           \* scrape_channel: groups (lists of positions in messages)
    valid_groups,     \* scrape_channel: valid_groups
    unparsed_count,   \* TelegramScraper.unparsed_count
    products,         \* TelegramScraper.products
    vi,               \* scrape_channel: idx + 1, position in valid_groups
    folder_name,      \* scrape_channel: folder_name of the current group
    di,               \* download_media_list: idx + 1, position in the group
    attempt,          \* download_media_list: attempt
    downloaded_files, \* download_media_list: downloaded_files
    disk,             \* Downloads/: folder -> its metadata.json and info.txt
    rows,             \* rows of the export last built
    loaded,           \* build_export: products
    reported,         \* main: the rate limit was printed with its wait time
    floodSeen,        \* history: the service raised FloodWaitError
    afterFlood,       \* history: a request was sent after a FloodWaitError
    tries,            \* history: how each attachment of this call ended
    fetched,          \* history: files transferred for each valid group
    asked,            \* history: messages whose attachment was requested
    madeFor           \* history: lead messages a folder was created for

vars == <<pc, messages, groups, valid_groups, unparsed_count, products, vi,
          folder_name, di, attempt, downloaded_files, disk, rows, loaded,
          reported, floodSeen, afterFlood, tries, fetched, asked, madeFor>>

scanVars  == <<messages, groups, valid_groups, unparsed_count>>
fetchVars == <<di, attempt, downloaded_files, tries>>
floodVars == <<reported, floodSeen, afterFlood>>
histVars  == <<fetched, asked, madeFor>>

Absent  == [st |-> "absent"]
Partial == [st |-> "partial"]

Msg(media, grouped_id, message) ==
    [media |-> media, grouped_id |-> grouped_id, message |-> message]

\* the messages a scanned channel holds: text-only chatter, single posts and
\* the members of one album
MsgKinds ==
    {Msg(FALSE, NoKey, TextGood),
     Msg(TRUE, NoKey, TextJunk), Msg(TRUE, NoKey, TextBlank),
     Msg(TRUE, 1, NoText), Msg(TRUE, 1, TextChat), Msg(TRUE, 1, TextGood)}

ShortInputs == UNION {[1..n -> MsgKinds] : n \in 0..MaxMsgs}

\* the messages handed to the grouping loop alone: any mix of album keys
AlbumKinds  == {Msg(FALSE, NoKey, NoText)} \cup {Msg(TRUE, g, NoText) : g \in 0..MaxKey}
AlbumInputs == UNION {[1..n -> AlbumKinds] : n \in 0..MaxAlbumMsgs}

\* one long channel of single posts, the second of them without a price
LongInputs ==
    {[i \in 1..LongLen |->
        IF i = 2 THEN Msg(TRUE, NoKey, TextChat)
        ELSE IF i % 2 = 1 THEN Msg(TRUE, NoKey, TextGood)
        ELSE Msg(TRUE, NoKey, TextJunk)]}

Memory0 ==
    /\ messages = <<>>
    /\ groups = <<>>
    /\ valid_groups = <<>>
    /\ unparsed_count = 0
    /\ products = <<>>
    /\ vi = 0
    /\ folder_name = <<>>
    /\ di = 0
    /\ attempt = 0
    /\ downloaded_files = <<>>
    /\ rows = <<>>
    /\ loaded = <<>>
    /\ reported = FALSE
    /\ floodSeen = FALSE
    /\ afterFlood = FALSE
    /\ tries = <<>>
    /\ fetched = <<>>
    /\ asked = {}
    /\ madeFor = {}

Init ==
    /\ pc = "start"
    /\ disk = <<>>
    /\ Memory0

\* ------------------------------------------------------- scan: listing
Listed(inputs) ==
    /\ pc = "start"
    /\ \E msgs \in inputs : messages' = msgs
    /\ pc' = "listed"
    /\ UNCHANGED <<groups, valid_groups, unparsed_count, products, vi, folder_name,
                   fetchVars, disk, rows, loaded, floodVars, histVars>>

\* get_entity / get_messages answer with the channel's messages
ListMessages == Listed(ShortInputs)

\* the same answer from the long channel
ListLong == Listed(LongInputs)

\* the same answer, drawn from the lists that mix album keys
ListAlbums == Listed(AlbumInputs)

\* get_entity / get_messages raise FloodWaitError: main prints the wait time
ListFlood ==
    /\ pc = "start"
    /\ floodSeen' = TRUE
    /\ reported' = TRUE
    /\ pc' = "reported"
    /\ UNCHANGED <<scanVars, products, vi, folder_name, fetchVars, disk, rows,
                   loaded, afterFlood, histVars>>

\* the grouping loop
GroupMessages ==
    /\ pc = "listed"
    /\ groups' = GroupMessagesOf(messages)
    /\ pc' = "grouped"
    /\ UNCHANGED <<messages, valid_groups, unparsed_count, products, vi, folder_name,
                   fetchVars, disk, rows, loaded, floodVars, histVars>>

\* the filter loop
FilterGroups ==
    /\ pc = "grouped"
    /\ valid_groups' = ValidGroupsOf(messages, groups)
    /\ unparsed_count' = unparsed_count + UnparsedOf(messages, groups)
    /\ fetched' = [k \in 1..Len(valid_groups') |-> <<>>]
    /\ vi' = 1
    /\ pc' = "loop"
    /\ UNCHANGED <<messages, groups, products, folder_name, fetchVars, disk, rows,
                   loaded, floodVars, asked, madeFor>>

\* ------------------------------------------------- scan: one valid group
Mkdir(d, name) ==
    IF name \in DOMAIN d THEN d
    ELSE [f \in DOMAIN d \cup {name} |->
             IF f = name THEN [meta |-> Absent, info |-> Absent] ELSE d[f]]

\* first position >= p of the group that carries media, or Len + 1
NextMedia(group, p) ==
    LET at == {q \in p..Len(group) : messages[group[q]].media} IN
    IF at = {} THEN Len(group) + 1 ELSE Min(at)

\* faulty variant: numbered by the records assembled so far
FolderNameByAssembled(product_num, total, info) ==
    <<Zfill(StrOfNat(Len(products) + 1), Len(StrOfNat(total)))>>
        \o SegsOf(info.name) \o <<StrOfNat(info.price)>>

\* f"{num_str}_{name}_{price}", held as its "_"-separated parts
FolderName(product_num, total, info) ==
    <<Zfill(StrOfNat(product_num), Len(StrOfNat(total)))>>
        \o SegsOf(info.name) \o <<StrOfNat(info.price)>>

MakeFolder ==
    /\ pc = "loop"
    /\ vi <= Len(valid_groups)
    /\ LET vg    == valid_groups[vi]
           info  == parse_product_info(vg.text)
           first == NextMedia(vg.group, 1)
       IN  /\ folder_name' = FolderName(vi, Len(valid_groups), info)
           /\ disk' = Mkdir(disk, folder_name')
           /\ madeFor' = madeFor \cup {vg.lead}
           /\ downloaded_files' = <<>>
           /\ tries' = <<>>
           /\ di' = first
           /\ attempt' = 1
           /\ pc' = IF first > Len(vg.group) THEN "downloaded" ELSE "download"
    /\ UNCHANGED <<scanVars, products, vi, rows, loaded, floodVars, fetched, asked>>

\* the attempt loop is left for the next attachment, or the call returns
NextAttachment(outcome) ==
    LET group == valid_groups[vi].group
        next  == NextMedia(group, di + 1)
    IN  /\ di' = next
        /\ attempt' = 1
        /\ tries' = Append(tries, [pos |-> di, n |-> attempt, last |-> outcome])
        /\ pc' = IF next > Len(group) THEN "downloaded" ELSE "download"

\* one call of client.download_media
Request ==
    /\ asked' = asked \cup {valid_groups[vi].group[di]}
    /\ afterFlood' = (afterFlood \/ floodSeen)

\* download_media returns the path of the stored file
DownloadOk ==
    /\ pc = "download"
    /\ Request
    /\ downloaded_files' = Append(downloaded_files, ImageName(di))
    /\ fetched' = [fetched EXCEPT ![vi] = Append(@, ImageName(di))]
    /\ NextAttachment("ok")
    /\ UNCHANGED <<scanVars, products, vi, folder_name, disk, rows, loaded,
                   reported, floodSeen, madeFor>>

\* download_media returns None: nothing is appended, the loop breaks
DownloadNone ==
    /\ pc = "download"
    /\ Request
    /\ NextAttachment("none")
    /\ UNCHANGED <<scanVars, products, vi, folder_name, downloaded_files, disk, rows,
                   loaded, reported, floodSeen, fetched, madeFor>>

\* faulty variant: a raised attempt is not retried
DownloadRaiseOnce ==
    /\ pc = "download"
    /\ Request
    /\ \E flood \in BOOLEAN : floodSeen' = (floodSeen \/ flood)
    /\ NextAttachment("raise")
    /\ UNCHANGED <<scanVars, products, vi, folder_name, downloaded_files, disk, rows,
                   loaded, reported, fetched, madeFor>>

\* download_media raises; FloodWaitError is an Exception like any other here
DownloadRaise ==
    /\ pc = "download"
    /\ Request
    /\ \E flood \in BOOLEAN : floodSeen' = (floodSeen \/ flood)
    /\ IF attempt = 3
       THEN NextAttachment("raise")
       ELSE /\ attempt' = attempt + 1
            /\ UNCHANGED <<di, pc, tries>>
    /\ UNCHANGED <<scanVars, products, vi, folder_name, downloaded_files, disk, rows,
                   loaded, reported, fetched, madeFor>>

\* faulty variant: the skipped group is counted as unparsed
SkipEmptyCounted ==
    /\ pc = "downloaded"
    /\ downloaded_files = <<>>
    /\ unparsed_count' = unparsed_count + 1
    /\ vi' = vi + 1
    /\ tries' = <<>>
    /\ pc' = "loop"
    /\ UNCHANGED <<messages, groups, valid_groups, products, folder_name, di, attempt,
                   downloaded_files, disk, rows, loaded, floodVars, histVars>>

\* `if not downloaded_files: continue`
SkipEmpty ==
    /\ pc = "downloaded"
    /\ downloaded_files = <<>>
    /\ vi' = vi + 1
    /\ tries' = <<>>
    /\ pc' = "loop"
    /\ UNCHANGED <<scanVars, products, folder_name, di, attempt, downloaded_files,
                   disk, rows, loaded, floodVars, histVars>>

\* faulty variant: the metadata file is opened whatever was downloaded
OpenMetadataAlways ==
    /\ pc = "downloaded"
    /\ disk' = [disk EXCEPT ![folder_name].meta = Partial]
    /\ tries' = <<>>
    /\ pc' = "meta_open"
    /\ UNCHANGED <<scanVars, products, vi, folder_name, di, attempt, downloaded_files,
                   rows, loaded, floodVars, histVars>>

\* open(product_folder / "metadata.json", "w")
OpenMetadata ==
    /\ pc = "downloaded"
    /\ downloaded_files # <<>>
    /\ disk' = [disk EXCEPT ![folder_name].meta = Partial]
    /\ tries' = <<>>
    /\ pc' = "meta_open"
    /\ UNCHANGED <<scanVars, products, vi, folder_name, di, attempt, downloaded_files,
                   rows, loaded, floodVars, histVars>>

Metadata(info, files, lead) ==
    [st |-> "complete", name |-> info.name, price |-> info.price,
     images |-> files, message_id |-> lead]

\* json.dump(metadata, f) and the close of the file
DumpMetadata ==
    /\ pc = "meta_open"
    /\ LET vg == valid_groups[vi] IN
       disk' = [disk EXCEPT ![folder_name].meta =
                   Metadata(parse_product_info(vg.text), downloaded_files, vg.lead)]
    /\ pc' = "meta_done"
    /\ UNCHANGED <<scanVars, products, vi, folder_name, fetchVars, rows, loaded,
                   floodVars, histVars>>

\* open(product_folder / "info.txt", "w")
OpenInfo ==
    /\ pc = "meta_done"
    /\ disk' = [disk EXCEPT ![folder_name].info = Partial]
    /\ pc' = "info_open"
    /\ UNCHANGED <<scanVars, products, vi, folder_name, fetchVars, rows, loaded,
                   floodVars, histVars>>

\* f.write(product_info["raw_text"]) and the close of the file
WriteInfo ==
    /\ pc = "info_open"
    /\ disk' = [disk EXCEPT ![folder_name].info =
                   [st |-> "complete",
                    text |-> parse_product_info(valid_groups[vi].text).raw_text]]
    /\ pc' = "info_done"
    /\ UNCHANGED <<scanVars, products, vi, folder_name, fetchVars, rows, loaded,
                   floodVars, histVars>>

ProductEntry(info, files, folder) ==
    [name |-> info.name, price |-> info.price,
     images |-> JoinSemi(files), folder |-> folder]

\* self.products.append(...), then the pause before the next group
AppendProduct ==
    /\ pc = "info_done"
    /\ products' = Append(products,
           ProductEntry(parse_product_info(valid_groups[vi].text),
                        downloaded_files, folder_name))
    /\ vi' = vi + 1
    /\ pc' = "loop"
    /\ UNCHANGED <<scanVars, folder_name, fetchVars, disk, rows, loaded,
                   floodVars, histVars>>

\* the loop over valid_groups is over: the summary is printed
Summary ==
    /\ pc = "loop"
    /\ vi > Len(valid_groups)
    /\ pc' = "scanned"
    /\ UNCHANGED <<scanVars, products, vi, folder_name, fetchVars, disk, rows,
                   loaded, floodVars, histVars>>

\* ------------------------------------------------------ Export Flattener
Cell(url, fname) == IF url # "" THEN RstripSlash(url) \o "/" \o fname ELSE fname

\* faulty variant: a record gets only the columns of its own images
ImageColumnsOwn(max_images, image_files, url) ==
    [i \in 1..Len(image_files) |-> Cell(url, image_files[i])]

\* the image columns "Product Image File - 1" .. of one row
ImageColumns(max_images, image_files, url) ==
    [i \in 1..max_images |->
        IF i <= Len(image_files) THEN Cell(url, image_files[i]) ELSE ""]

\* generate_export: one row of the run command's export
RunRow(p, max_images, url) ==
    [name  |-> p.name,            \* p["name"].replace("_", " ")
     price |-> RoundDiv(p.price),
     img   |-> ImageColumns(max_images, SplitSemi(p.images), url)]

RunRows(ps, url) ==
    LET max_images == Max({Len(SplitSemi(ps[k].images)) : k \in 1..Len(ps)}) IN
    [k \in 1..Len(ps) |-> RunRow(ps[k], max_images, url)]

GenerateExport ==
    /\ pc = "scanned"
    /\ \E url \in BaseUrls :
          rows' = IF products = <<>> THEN <<>> ELSE RunRows(products, url)
    /\ pc' = "exported"
    /\ UNCHANGED <<scanVars, products, vi, folder_name, fetchVars, disk, loaded,
                   floodVars, histVars>>

\* finally: scraper.stop()
Stop ==
    /\ pc \in {"exported", "reported"}
    /\ pc' = "stopped"
    /\ UNCHANGED <<scanVars, products, vi, folder_name, fetchVars, disk, rows, loaded,
                   floodVars, histVars>>

\* a fresh process: nothing of the previous one is left in memory
Forget ==
    /\ messages' = <<>>
    /\ groups' = <<>>
    /\ valid_groups' = <<>>
    /\ unparsed_count' = 0
    /\ products' = <<>>
    /\ vi' = 0
    /\ folder_name' = <<>>
    /\ di' = 0
    /\ attempt' = 0
    /\ downloaded_files' = <<>>
    /\ tries' = <<>>
    /\ fetched' = <<>>
    /\ asked' = {}
    /\ madeFor' = {}

\* the process is killed: its memory is gone, Downloads/ stays as it is
Interrupt ==
    /\ pc \notin {"stopped", "killed", "rebuilt", "build_failed"}
    /\ pc' = "killed"
    /\ Forget
    /\ rows' = <<>>
    /\ loaded' = <<>>
    /\ reported' = FALSE
    /\ floodSeen' = FALSE
    /\ afterFlood' = FALSE
    /\ UNCHANGED disk

\* ------------------------------------------------- export_only.py
IsJunkName(ws) == ws # <<>> /\ ws[1] \in JunkKeywords
IsDigit(w) == w \in NumberWords

clean_name(raw_name, folder) ==
    LET name    == Strip(raw_name)
        parts   == SelectSeq(SubSeq(folder, 2, Len(folder) - 1),
                             LAMBDA q : ~IsDigit(q) /\ q \notin JunkKeywords)
        cleaned == IF IsJunkName(name) THEN Strip(parts) ELSE name
    IN  IF cleaned = <<>> THEN <<"Unknown", "Brand">> ELSE cleaned

\* the number a zero-padded sequence segment stands for (the sort key)
Padded(w) == {Zfill(StrOfNat(n), w) : n \in 0..99}
NumTable  == [s \in Padded(1) \cup Padded(2) |->
                 CHOOSE n \in 0..99 : Zfill(StrOfNat(n), Len(s)) = s]
NumOf(s)  == NumTable[s]

\* sorted(...): the folders of one run differ in their sequence segment
SortedFolders(S) ==
    LET key     == [f \in S |-> NumOf(f[1])]
        rank(f) == Cardinality({g \in S : key[g] <= key[f]})
    IN  [k \in 1..Cardinality(S) |-> CHOOSE f \in S : rank(f) = k]

Folders(d) == SortedFolders({f \in DOMAIN d : d[f].meta # Absent})

LoadProduct(d, f) ==
    [folder    |-> f,
     name      |-> clean_name(d[f].meta.name, f),
     price_uah |-> d[f].meta.price,
     images    |-> d[f].meta.images]

WebdavName(p, i) ==
    JoinStr([k \in 1..Len(p.folder) |-> StripBrackets(p.folder[k])], "_")
        \o "__" \o p.images[i]

StandaloneRow(p, max_images, url) ==
    [name  |-> p.name,
     price |-> RoundDiv(p.price_uah),
     img   |-> ImageColumns(max_images,
                            [i \in 1..Len(p.images) |-> WebdavName(p, i)], url)]

StandaloneRows(ps, url) ==
    LET max_images == Max({Len(ps[k].images) : k \in 1..Len(ps)}) IN
    [k \in 1..Len(ps) |-> StandaloneRow(ps[k], max_images, url)]

\* python export_only.py, run after the scraper process has ended
BuildExport ==
    /\ pc \in {"stopped", "killed"}
    /\ LET folders == Folders(disk) IN
       IF \E k \in 1..Len(folders) : disk[folders[k]].meta = Partial
       THEN \* json.load raises on the truncated file
            /\ pc' = "build_failed"
            /\ loaded' = <<>>
            /\ rows' = <<>>
       ELSE /\ pc' = "rebuilt"
            /\ loaded' = [k \in 1..Len(folders) |-> LoadProduct(disk, folders[k])]
            /\ \E url \in BaseUrls :
                  rows' = IF folders = <<>> THEN <<>> ELSE StandaloneRows(loaded', url)
    /\ messages' = <<>>
    /\ groups' = <<>>
    /\ valid_groups' = <<>>
    /\ unparsed_count' = 0
    /\ products' = <<>>
    /\ vi' = 0
    /\ folder_name' = <<>>
    /\ di' = 0
    /\ attempt' = 0
    /\ downloaded_files' = <<>>
    /\ tries' = <<>>
    /\ fetched' = <<>>
    /\ asked' = {}
    /\ madeFor' = {}
    /\ UNCHANGED <<disk, floodVars>>

\* everything after the listing request
Scan ==
    \/ GroupMessages
    \/ FilterGroups
    \/ MakeFolder
    \/ DownloadOk
    \/ DownloadNone
    \/ DownloadRaise
    \/ SkipEmpty
    \/ OpenMetadata
    \/ DumpMetadata
    \/ OpenInfo
    \/ WriteInfo
    \/ AppendProduct
    \/ Summary
    \/ GenerateExport
    \/ Stop
    \/ Interrupt
    \/ BuildExport

Next ==
    \/ ListMessages
    \/ ListFlood
    \/ Scan

Spec == Init /\ [][Next]_vars

\* the run on the long channel
NextLong ==
    \/ ListLong
    \/ ListFlood
    \/ Scan

SpecLong == Init /\ [][NextLong]_vars

\* the grouping loop alone, on lists that mix album keys
NextGroup ==
    \/ ListAlbums
    \/ GroupMessages

SpecGroup == Init /\ [][NextGroup]_vars

\* ================================================================ claims
Range(f) == {f[x] : x \in DOMAIN f}

\* positions of the process at which the scan's groups are in memory
ScanPcs == {"loop", "download", "downloaded", "meta_open", "meta_done",
            "info_open", "info_done", "scanned", "exported"}
GroupPcs == {"download", "downloaded", "meta_open", "meta_done", "info_open", "info_done"}

FullyPersisted(f) ==
    f \in DOMAIN disk /\ disk[f].meta.st = "complete" /\ disk[f].info.st = "complete"

\* ------------------------------------------------------------------- C1
PlacesOf(i) ==
    UNION {{<<j, p>> : p \in {q \in 1..Len(groups[j]) : groups[j][q] = i}} :
           j \in 1..Len(groups)}

\* C1: after the grouping loop every attachment-bearing message is in exactly
\* one group and a message without attachment in none; the messages of one
\* album key are in one group, in input order; a message without album key is
\* a group of its own; groups are ordered by the position of their lead.
GroupingPartitions ==
    pc = "grouped" =>
        /\ \A i \in 1..Len(messages) :
              Cardinality(PlacesOf(i)) = IF messages[i].media THEN 1 ELSE 0
        /\ \A j \in 1..Len(groups) :
              /\ groups[j] # <<>>
              /\ \A p \in 1..(Len(groups[j]) - 1) : groups[j][p] < groups[j][p + 1]
        /\ \A a, b \in 1..Len(messages) :
              (/\ messages[a].media
               /\ messages[b].media
               /\ messages[a].grouped_id # NoKey
               /\ messages[a].grouped_id = messages[b].grouped_id)
              => \E j \in 1..Len(groups) : {a, b} \subseteq Range(groups[j])
        /\ \A i \in 1..Len(messages) :
              (messages[i].media /\ messages[i].grouped_id = NoKey)
              => \E j \in 1..Len(groups) : groups[j] = <<i>>
        /\ \A j \in 1..(Len(groups) - 1) : groups[j][1] < groups[j + 1][1]

\* two albums interleaved: the second group's members are not adjacent
GroupingWitness ==
    /\ pc = "grouped"
    /\ \E j \in 2..Len(groups) :
          Len(groups[j]) >= 2 /\ groups[j][2] > groups[j][1] + 1

\* ------------------------------------------------------------------- C2
\* C2: the standalone export never has a row for a product folder that lacks
\* the complete metadata file or the complete raw-text backup file.
StandaloneExportOnlyPersisted ==
    pc = "rebuilt" => \A r \in 1..Len(loaded) : FullyPersisted(loaded[r].folder)

\* ------------------------------------------------------------------- C3
\* C3: once the service has signalled a rate limit, the signal is reported at
\* the top level and no further request is sent to the service.
RateLimitAborts == (floodSeen => reported) /\ ~afterFlood

\* ------------------------------------------------------------------- C4
FilesOf(ts) ==
    LET ok == SelectSeq(ts, LAMBDA t : t.last = "ok") IN
    [k \in 1..Len(ok) |-> ImageName(ok[k].pos)]

FetchBounded ==
    /\ attempt <= 3
    /\ \A k \in 1..Len(tries) : tries[k].n <= 3
    /\ \A k \in 1..(Len(tries) - 1) : tries[k].pos < tries[k + 1].pos

FetchComplete ==
    pc = "downloaded" =>
        /\ {tries[k].pos : k \in 1..Len(tries)} = 1..Len(valid_groups[vi].group)
        /\ downloaded_files = FilesOf(tries)

\* C4 as stated: at most 3 attempts per attachment, an attachment is left out
\* of the result only after its 3rd failed attempt, every attachment of the
\* group is attempted, the result is the transferred files in group order.
FetchRetriesEveryFailure ==
    pc \in {"download", "downloaded"} =>
        /\ FetchBounded
        /\ \A k \in 1..Len(tries) : tries[k].last # "ok" => tries[k].n = 3
        /\ FetchComplete

\* C4 as amended: an attempt that raises is retried up to the 3rd attempt; an
\* attempt that returns no file ends the attempts on its attachment at once.
FetchRetriesRaisedFailures ==
    pc \in {"download", "downloaded"} =>
        /\ FetchBounded
        /\ \A k \in 1..Len(tries) : tries[k].last = "raise" => tries[k].n = 3
        /\ \A k \in 1..Len(tries) : tries[k].last \in {"ok", "none", "raise"}
        /\ FetchComplete

\* an exhausted attachment, then one dropped for an empty answer, then a file
FetchWitness ==
    /\ pc = "downloaded"
    /\ Len(tries) = 3
    /\ tries[1].last = "raise"
    /\ tries[2].last = "none"
    /\ tries[3].last = "ok" /\ tries[3].n = 2

\* ------------------------------------------------------------------- C5
FileTokens(images) == {images[x] : x \in {y \in DOMAIN images : images[y] # ";"}}

\* the valid groups already dealt with whose fetch returned a file
Kept ==
    SelectSeq([k \in 1..Len(valid_groups) |-> k], LAMBDA k : k < vi /\ fetched[k] # <<>>)

\* C5: a group whose fetch returned nothing leaves no metadata file, no
\* backup file and no entry in the product list; every record, on disk or in
\* memory, lists at least one file, all of them transferred for its group.
EmptyFetchLeavesNoRecord ==
    pc \in ScanPcs =>
        LET empty   == [meta |-> Absent, info |-> Absent]
            written == {f \in DOMAIN disk : disk[f] # empty}
            fetching == {k \in 1..Len(valid_groups) : k <= vi /\ fetched[k] # <<>>}
        IN
        /\ Len(products) = Len(Kept)
        /\ \A r \in 1..Len(products) :
              /\ FileTokens(products[r].images) # {}
              /\ FileTokens(products[r].images) \subseteq Range(fetched[Kept[r]])
        /\ Cardinality(written) <= Cardinality(fetching)
        /\ \A f \in written :
              disk[f].meta.st = "complete" =>
                  /\ disk[f].meta.images # <<>>
                  /\ \E k \in fetching :
                        /\ valid_groups[k].lead = disk[f].meta.message_id
                        /\ Range(disk[f].meta.images) \subseteq Range(fetched[k])

EmptyFetchWitness ==
    /\ pc = "scanned"
    /\ products # <<>>
    /\ \E k \in 1..Len(valid_groups) : fetched[k] = <<>>

\* ------------------------------------------------------------------- C6
ExportedFolders ==
    IF pc = "exported" THEN [r \in 1..Len(products) |-> products[r].folder]
    ELSE [r \in 1..Len(loaded) |-> loaded[r].folder]

ImageCount(f) == Len(disk[f].meta.images)

\* C6: every row of an export has the image columns 1..maxImages, maxImages
\* the largest image count of the batch; a cell within the record's own count
\* is non-empty, a cell beyond it is the empty string.
ImageColumnsUniform ==
    (pc \in {"exported", "rebuilt"} /\ rows # <<>>) =>
        LET maxImages == Max({ImageCount(ExportedFolders[r]) : r \in 1..Len(rows)}) IN
        /\ Len(rows) = Len(ExportedFolders)
        /\ \A r \in 1..Len(rows) :
              /\ DOMAIN rows[r].img = 1..maxImages
              /\ \A i \in 1..maxImages :
                    IF i <= ImageCount(ExportedFolders[r])
                    THEN rows[r].img[i] # ""
                    ELSE rows[r].img[i] = ""

ImageColumnsWitness ==
    /\ pc = "exported"
    /\ \E r, q \in 1..Len(rows) :
          ImageCount(ExportedFolders[r]) = 1 /\ ImageCount(ExportedFolders[q]) = 2

\* ------------------------------------------------------------------- C7
\* C7: every row of either export has a non-empty product name, and never a
\* degenerate price-keyword name.
ExportedNamesMeaningful ==
    pc \in {"exported", "rebuilt"} =>
        \A r \in 1..Len(rows) : rows[r].name # <<>> /\ ~IsJunkName(rows[r].name)

\* ------------------------------------------------------------------- C8
EmptyFetches == {k \in 1..Len(valid_groups) : fetched[k] = <<>>}

\* C8 as stated: at the end of the scan the assembled count plus the failure
\* count is the number of groups.
TotalsAccountForGroups ==
    pc = "scanned" => Len(products) + unparsed_count = Len(groups)

\* C8 as amended: the assembled count is the number of persisted records, the
\* failure count is the number of groups that failed extraction alone, and the
\* two together with the groups whose fetch came back empty make up the groups.
TotalsLeaveOutEmptyFetches ==
    pc = "scanned" =>
        /\ Len(products) = Cardinality({f \in DOMAIN disk : FullyPersisted(f)})
        /\ unparsed_count = Len(groups) - Len(valid_groups)
        /\ Len(products) + unparsed_count + Cardinality(EmptyFetches) = Len(groups)

TotalsWitness ==
    /\ pc = "scanned"
    /\ products # <<>>
    /\ unparsed_count > 0
    /\ EmptyFetches # {}

\* ------------------------------------------------------------------- C9
\* the first text found scanning the group in stored order
FirstText(g) ==
    LET texted == {p \in 1..Len(g) : messages[g[p]].message # NoText} IN
    IF texted = {} THEN NoText
    ELSE messages[g[CHOOSE p \in texted : \A q \in texted : p <= q]].message

Unparsed(g) == FirstText(g) = NoText \/ FindPrice(FirstText(g)) = NoPrice

DigitWidth(n) == IF n < 10 THEN 1 ELSE IF n < 100 THEN 2 ELSE 3
Zeros(z) == IF z = 0 THEN "" ELSE IF z = 1 THEN "0" ELSE "00"

\* C10: the k-th valid group gets sequence number k, whatever happened to the
\* groups before it, zero-padded to the digit width of the count of valid
\* groups; no two records of a run share a folder identifier.
SequenceNumbering ==
    /\ pc \in GroupPcs =>
          /\ Len(folder_name[1]) = DigitWidth(Len(valid_groups))
          /\ \E z \in 0..2 : folder_name[1] = Zeros(z) \o StrOfNat(vi)
    /\ pc \in ScanPcs =>
          /\ \A a, b \in 1..Len(products) : a # b => products[a].folder # products[b].folder
          /\ Cardinality(DOMAIN disk) = Cardinality(madeFor)

\* a one-digit number padded in a run of ten groups, after a discarded group
SequenceWitness ==
    /\ pc = "info_done"
    /\ Len(valid_groups) >= 10
    /\ vi \in 3..9
    /\ Len(products) = 1

====
